---- MODULE Spec2Model ----
(***************************************************************************)
(* Model of the LatAm keymap helpers:                                      *)
(*   kbmap_qmk_helper.py         static resolver with QMK suggestions      *)
(*   keymap_programming_keys.py  static resolver with key labels           *)
(*   keyboard_combo_inspector.py live inspector (Tk/XKB backend)           *)
(*                                                                         *)
(* Python strings are TLA+ strings; Len, \o, Head, Tail and SubSeq act on  *)
(* them character by character.  Python's None and the empty string are   *)
(* both falsy and every place that receives None only tests truthiness,   *)
(* so None is the empty string.                                            *)
(***************************************************************************)
EXTENDS Integers, Sequences, FiniteSets, TLC

VARIABLES
    DISPLAY,        \* os.environ.get("DISPLAY") is set
    argv,           \* command-line flags that change the resolved rows
    pke,            \* lines printed by xmodmap -pke
    prog,           \* which resolver ran: "none" before main()
    pc,             \* "start", or the exit status "exit0" / "exit1" / "exit2"
    keymap,         \* dict keycode -> 4 symbols, in insertion order
    positions,      \* dict char -> list of (code, lvl, sym, level_syms)
    show_missing,   \* keymap_programming_keys.main local
    rows,           \* rows handed to the renderer
    chosen,         \* per wanted char, the occurrence found[0] the loop used
    tk_mods,        \* App.tk_mods
    held,           \* keys physically down while the window has focus
    armed,          \* ISO_Level3_Shift pressed, no AltGr alias released since
    xkb_info,       \* the KeyEventInfo last passed to _update_xkb
    var_xkb_combo,  \* the four fields of the XKB tab
    var_xkb_key,
    var_xkb_char,
    var_xkb_qmk,
    txt_xkb_log,    \* the line last inserted into the XKB log
    HAVE_EVDEV,     \* the evdev import succeeded
    cmb_devices,    \* the entry selected in the device list
    ev_mods,        \* App.ev_mods
    ev_pc,          \* App.ev_thread: "none", or where the worker stands
    ev_exc,         \* the exception the worker caught
    ev_stop,        \* App.ev_stop is set
    ev_dev_path,    \* App.ev_dev_path
    queue,          \* App.queue
    var_ev_combo,   \* the four fields of the evdev tab
    var_ev_key,
    var_ev_char,
    var_ev_qmk,
    txt_ev_log,     \* the line last inserted into the evdev log
    messagebox,     \* the title of the dialog start_evdev_capture showed last
    ui_pc,          \* the UI thread: "idle" in the main loop, "drain" inside _drain_queue
    ev_held,        \* keys of the captured device that went down under the read loop and are still down
    ev_armed,       \* the read loop saw KEY_RIGHTALT go down and not come up since
    enqueued,       \* every item put on the queue so far, in order
    displayed       \* every item _drain_queue has handled so far, in order

static_vars == <<DISPLAY, argv, pke, prog, pc, keymap, positions,
                 show_missing, rows, chosen>>
tk_vars == <<tk_mods, held, armed, xkb_info, var_xkb_combo, var_xkb_key,
             var_xkb_char, var_xkb_qmk, txt_xkb_log>>
ev_vars == <<HAVE_EVDEV, cmb_devices, ev_mods, ev_pc, ev_exc, ev_stop, ev_dev_path,
             queue, var_ev_combo, var_ev_key, var_ev_char, var_ev_qmk, txt_ev_log,
             messagebox, ui_pc, ev_held, ev_armed, enqueued, displayed>>
vars == <<DISPLAY, argv, pke, prog, pc, keymap, positions, show_missing,
          rows, chosen, tk_mods, held, armed, xkb_info, var_xkb_combo,
          var_xkb_key, var_xkb_char, var_xkb_qmk, txt_xkb_log,
          HAVE_EVDEV, cmb_devices, ev_mods, ev_pc, ev_exc, ev_stop, ev_dev_path,
          queue, var_ev_combo, var_ev_key, var_ev_char, var_ev_qmk, txt_ev_log,
          messagebox, ui_pc, ev_held, ev_armed, enqueued, displayed>>

----------------------------------------------------------------------------
(* Bounds of the explored inputs *)

MaxKeys == 2        \* keycode lines in a layout over TieTokens
MaxToks == 5        \* symbol tokens on one keycode line
MaxHeld == 3        \* keys held down at the same time
MaxItems == 2       \* items the capture thread puts on the queue

NumLevels == 4      \* levels kept per key

----------------------------------------------------------------------------
(* Python built-ins *)

None == ""
NoSymbol == "NoSymbol"
DASH == "<U+2014>"  \* the em dash the programs print in empty cells
BACKTICK == "¦"     \* stands for the one character U+0060, which a TLA+ string cannot hold

Range(s) == {s[i] : i \in 1..Len(s)}

RECURSIVE list(_)
list(s) == IF s = "" THEN <<>> ELSE <<Head(s)>> \o list(Tail(s))

startswith(s, prefix) ==
    Len(s) >= Len(prefix) /\ SubSeq(s, 1, Len(prefix)) = prefix

ascii_lowercase == list("abcdefghijklmnopqrstuvwxyz")
ascii_uppercase == list("ABCDEFGHIJKLMNOPQRSTUVWXYZ")
Lowers == ascii_lowercase \o <<"ñ">>
Uppers == ascii_uppercase \o <<"Ñ">>
Digits == list("0123456789")

\* str.isalpha / str.isdigit / str.isalnum on the characters of the model
isalpha(s) == s # "" /\ \A ch \in Range(list(s)) : ch \in Range(Lowers) \cup Range(Uppers)
isdigit(s) == s # "" /\ \A ch \in Range(list(s)) : ch \in Range(Digits)
isalnum(s) == s # "" /\ \A ch \in Range(list(s)) : isalpha(ch) \/ isdigit(ch)

upper1(ch) ==
    IF \E i \in 1..Len(Lowers) : Lowers[i] = ch
    THEN Uppers[CHOOSE i \in 1..Len(Lowers) : Lowers[i] = ch]
    ELSE ch
lower1(ch) ==
    IF \E i \in 1..Len(Uppers) : Uppers[i] = ch
    THEN Lowers[CHOOSE i \in 1..Len(Uppers) : Uppers[i] = ch]
    ELSE ch
RECURSIVE upper(_)
upper(s) == IF s = "" THEN "" ELSE upper1(Head(s)) \o upper(Tail(s))
RECURSIVE lower(_)
lower(s) == IF s = "" THEN "" ELSE lower1(Head(s)) \o lower(Tail(s))

\* dict.get(k) with the default None
get(d, k) == IF k \in DOMAIN d THEN d[k] ELSE None

\* s[:-1]
droplast(s) == IF s = "" THEN "" ELSE SubSeq(s, 1, Len(s) - 1)

----------------------------------------------------------------------------
(* kbmap_qmk_helper.py: tables *)

WANTED_CHARS ==
    list("abcdefghijklmnopqrstuvwxyz") \o <<"ñ">> \o
    list("ABCDEFGHIJKLMNOPQRSTUVWXYZ") \o <<"Ñ">> \o
    list("0123456789") \o
    list("[]{}()<>/\\|~^") \o <<BACKTICK>> \o list("@#$%&*+-_=;:,\"'!?.") \o
    <<"¿", "¡", "°", "¬", "´">> \o
    <<"@", BACKTICK, "ñ", "Ñ">>

DEAD_PREFIX == "dead_"

KEYSYM_TO_CHAR ==
    ("parenleft" :> "(") @@ ("parenright" :> ")") @@
    ("bracketleft" :> "[") @@ ("bracketright" :> "]") @@
    ("braceleft" :> "{") @@ ("braceright" :> "}") @@
    ("less" :> "<") @@ ("greater" :> ">") @@
    ("slash" :> "/") @@ ("backslash" :> "\\") @@ ("bar" :> "|") @@
    ("asciitilde" :> "~") @@ ("asciicircum" :> "^") @@ ("grave" :> BACKTICK) @@
    ("at" :> "@") @@ ("numbersign" :> "#") @@ ("dollar" :> "$") @@
    ("percent" :> "%") @@ ("ampersand" :> "&") @@ ("asterisk" :> "*") @@
    ("minus" :> "-") @@ ("underscore" :> "_") @@
    ("equal" :> "=") @@ ("plus" :> "+") @@
    ("semicolon" :> ";") @@ ("colon" :> ":") @@
    ("quotedbl" :> "\"") @@ ("apostrophe" :> "'") @@
    ("comma" :> ",") @@ ("period" :> ".") @@
    ("question" :> "?") @@ ("exclam" :> "!") @@
    ("exclamdown" :> "¡") @@ ("questiondown" :> "¿") @@
    ("degree" :> "°") @@ ("notsign" :> "¬") @@
    ("space" :> " ") @@
    ("ntilde" :> "ñ") @@ ("Ntilde" :> "Ñ") @@
    ("dead_grave" :> BACKTICK) @@
    ("dead_acute" :> "´") @@
    ("dead_tilde" :> "~")

BASE_KEYSYM_TO_QMK_no_ntilde ==
    [c \in Range(ascii_lowercase) |-> "KC_" \o upper(c)] @@
    [d \in Range(Digits) |-> "KC_" \o d] @@
    ("minus" :> "KC_MINS") @@
    ("equal" :> "KC_EQL") @@
    ("bracketleft" :> "KC_LBRC") @@
    ("bracketright" :> "KC_RBRC") @@
    ("backslash" :> "KC_BSLS") @@
    ("slash" :> "KC_SLSH") @@
    ("semicolon" :> "KC_SCLN") @@
    ("apostrophe" :> "KC_QUOT") @@
    ("comma" :> "KC_COMM") @@
    ("period" :> "KC_DOT") @@
    ("grave" :> "KC_GRV") @@
    ("space" :> "KC_SPC")
BASE_KEYSYM_TO_QMK ==
    [c \in Range(ascii_lowercase) |-> "KC_" \o upper(c)] @@
    ("ntilde" :> "KC_SCLN") @@
    [d \in Range(Digits) |-> "KC_" \o d] @@
    ("minus" :> "KC_MINS") @@
    ("equal" :> "KC_EQL") @@
    ("bracketleft" :> "KC_LBRC") @@
    ("bracketright" :> "KC_RBRC") @@
    ("backslash" :> "KC_BSLS") @@
    ("slash" :> "KC_SLSH") @@
    ("semicolon" :> "KC_SCLN") @@
    ("apostrophe" :> "KC_QUOT") @@
    ("comma" :> "KC_COMM") @@
    ("period" :> "KC_DOT") @@
    ("grave" :> "KC_GRV") @@
    ("space" :> "KC_SPC")

(* kbmap_qmk_helper.py: functions *)

keysym_to_char(sym) ==
    IF startswith(sym, DEAD_PREFIX) THEN sym
    ELSE IF sym \in DOMAIN KEYSYM_TO_CHAR THEN KEYSYM_TO_CHAR[sym]
    ELSE IF Len(sym) = 1 THEN sym
    ELSE None

\* keymap[code] = row on an insertion-ordered dict
dict_set(d, code, row) ==
    IF \E i \in 1..Len(d) : d[i].code = code
    THEN [i \in 1..Len(d) |-> IF d[i].code = code THEN [code |-> code, syms |-> row] ELSE d[i]]
    ELSE Append(d, [code |-> code, syms |-> row])

\* the line matches ^keycode\s+(\d+)\s+=\s+(.*)$ after strip(): the \s+ behind
\* "=" needs a blank that strip() leaves only in front of a first token
pat_match(line) == Len(line.toks) >= 1

\* syms[:4]
truncate_last(syms) == SubSeq(syms, Len(syms) - NumLevels + 1, Len(syms))
truncate(syms) == SubSeq(syms, 1, NumLevels)

RECURSIVE pad(_)
pad(syms) == IF Len(syms) < NumLevels THEN pad(Append(syms, NoSymbol)) ELSE syms

RECURSIVE parse_lines(_, _)
parse_lines(lines, km) ==
    IF lines = <<>> THEN km
    ELSE LET line == Head(lines) IN
         IF ~pat_match(line) THEN parse_lines(Tail(lines), km)
         ELSE parse_lines(Tail(lines),
                          dict_set(km, line.code, truncate(pad(line.toks))))

parse_xmodmap_pke(text) == parse_lines(text, <<>>)

level_to_combo_swapped(lvl) ==
    CASE lvl = 0 -> ""
      [] lvl = 1 -> "AltGr+"
      [] lvl = 2 -> "Shift+"
      [] lvl = 3 -> "Shift+AltGr+"
      [] OTHER -> ""
level_to_combo(lvl) ==
    CASE lvl = 0 -> ""
      [] lvl = 1 -> "Shift+"
      [] lvl = 2 -> "AltGr+"
      [] lvl = 3 -> "Shift+AltGr+"
      [] OTHER -> ""

RECURSIVE label_scan(_, _)
label_scan(level_syms, i) ==
    IF i > NumLevels THEN None
    ELSE LET ch == keysym_to_char(level_syms[i]) IN
         IF ch # None /\ ~startswith(ch, DEAD_PREFIX) THEN ch
         ELSE label_scan(level_syms, i + 1)

prefer_key_label(level_syms) ==
    LET ch == label_scan(level_syms, 1) IN
    IF ch # None THEN ch
    ELSE IF keysym_to_char(level_syms[1]) # None THEN keysym_to_char(level_syms[1])
    ELSE level_syms[1]

\* pos[ch].append(entry) on a defaultdict(list)
dd_append(pos, ch, entry) ==
    IF ch \in DOMAIN pos THEN [pos EXCEPT ![ch] = Append(@, entry)]
    ELSE pos @@ (ch :> <<entry>>)

indexed_with_dead(sym) ==
    /\ sym # NoSymbol
    /\ keysym_to_char(sym) # None
\* whether build_positions indexes this symbol
indexed(sym) ==
    /\ sym # NoSymbol
    /\ keysym_to_char(sym) # None
    /\ ~startswith(keysym_to_char(sym), DEAD_PREFIX)

RECURSIVE build_levels(_, _, _, _)
build_levels(pos, code, syms, lvl) ==
    IF lvl >= Len(syms) THEN pos
    ELSE LET sym == syms[lvl + 1] IN
         IF indexed(sym)
         THEN build_levels(dd_append(pos, keysym_to_char(sym), <<code, lvl, sym, syms>>),
                           code, syms, lvl + 1)
         ELSE build_levels(pos, code, syms, lvl + 1)

RECURSIVE build_keys(_, _)
build_keys(pos, km) ==
    IF km = <<>> THEN pos
    ELSE build_keys(build_levels(pos, Head(km).code, Head(km).syms, 0), Tail(km))

build_positions(km) == build_keys(<<>>, km)

\* base_keysym of qmk_combo_for
base_keysym(code_entry) ==
    LET sym == code_entry[3]
        level_syms == code_entry[4]
    IN IF level_syms[1] # NoSymbol THEN level_syms[1] ELSE sym

unknown_base_generic(keysym) == "<KC_BASE_DESCONOCIDA>"
\* the marker of the last fallback
unknown_base(keysym) == "<KC_BASE_DESCONOCIDA:keysym=" \o keysym \o ">"

\* qmk_base of qmk_combo_for, after its fallbacks
qmk_base(code_entry) ==
    LET bk == base_keysym(code_entry)
        direct == IF Len(bk) = 1 /\ isalpha(bk) THEN "KC_" \o upper(bk)
                  ELSE IF Len(bk) = 1 /\ isdigit(bk) THEN "KC_" \o bk
                  ELSE get(BASE_KEYSYM_TO_QMK, bk)
        key_label == prefer_key_label(code_entry[4])
    IN IF direct # None THEN direct
       ELSE IF Len(key_label) = 1 /\ isalpha(key_label) THEN "KC_" \o upper(key_label)
       ELSE IF Len(key_label) = 1 /\ isdigit(key_label) THEN "KC_" \o key_label
       ELSE unknown_base(bk)

stack_mods_inverted(lvl, base) ==
    IF lvl = 0 THEN base
    ELSE IF lvl = 1 THEN "S(" \o base \o ")"
    ELSE IF lvl = 2 THEN "RALT(" \o base \o ")"
    ELSE "RALT(S(" \o base \o "))"
\* the modifier stacking at the end of qmk_combo_for
stack_mods(lvl, base) ==
    IF lvl = 0 THEN base
    ELSE IF lvl = 1 THEN "S(" \o base \o ")"
    ELSE IF lvl = 2 THEN "RALT(" \o base \o ")"
    ELSE "S(RALT(" \o base \o "))"

qmk_combo_for(code_entry) ==
    <<level_to_combo(code_entry[2]), code_entry[3], stack_mods(code_entry[2], qmk_base(code_entry))>>

RECURSIVE insert_by_level_unstable(_, _)
insert_by_level_unstable(sorted, t) ==
    IF sorted = <<>> THEN <<t>>
    ELSE IF Head(sorted)[2] < t[2]
         THEN <<Head(sorted)>> \o insert_by_level_unstable(Tail(sorted), t)
    ELSE <<t>> \o sorted
\* list.sort(key=lambda t: t[1]) and sorted(..., key=lambda t: t[1]): stable
RECURSIVE insert_by_level(_, _)
insert_by_level(sorted, t) ==
    IF sorted = <<>> THEN <<t>>
    ELSE IF Head(sorted)[2] <= t[2] THEN <<Head(sorted)>> \o insert_by_level(Tail(sorted), t)
    ELSE <<t>> \o sorted

RECURSIVE sort_by_level(_)
sort_by_level(found) ==
    IF found = <<>> THEN <<>>
    ELSE insert_by_level(sort_by_level(SubSeq(found, 1, Len(found) - 1)), found[Len(found)])

\* rows.append(...) of every round of a loop, in the order of the rounds
RECURSIVE appended(_, _, _)
appended(per_round, lo, hi) ==
    IF lo > hi THEN <<>>
    ELSE IF lo = hi THEN per_round[lo]
    ELSE LET mid == (lo + hi) \div 2 IN
         appended(per_round, lo, mid) \o appended(per_round, mid + 1, hi)

last_index(wanted, c) ==
    CHOOSE i \in 1..Len(wanted) : wanted[i] = c /\ \A j \in (i + 1)..Len(wanted) : wanted[j] # c

\* found of round i of kbmap_qmk_helper.main: positions.get(c), which an
\* earlier round for the same character has sorted in place
helper_found(pos, wanted, i) ==
    LET found == get(pos, wanted[i]) IN
    IF found = None THEN <<>>
    ELSE IF \E j \in 1..(i - 1) : wanted[j] = wanted[i] THEN sort_by_level(found)
    ELSE found

\* found after found.sort(...) in round i
helper_sorted(pos, wanted, i) == sort_by_level(helper_found(pos, wanted, i))

\* what round i of the loop of kbmap_qmk_helper.main appends to rows
helper_round(pos, wanted, i) ==
    IF helper_found(pos, wanted, i) = <<>> THEN <<>>
    ELSE LET first == helper_sorted(pos, wanted, i)[1]
             res == qmk_combo_for(first)
             key_label == prefer_key_label(first[4])
         IN << <<wanted[i], IF res[1] # "" THEN droplast(res[1]) ELSE DASH,
                 res[2], res[3], key_label>> >>

\* the loop of kbmap_qmk_helper.main: [positions, rows, chosen] when it ends
helper_loop(pos, wanted) ==
    LET hit == {i \in 1..Len(wanted) : helper_found(pos, wanted, i) # <<>>} IN
    [positions |-> [c \in DOMAIN pos |->
                       IF c \in Range(wanted)
                       THEN helper_sorted(pos, wanted, last_index(wanted, c))
                       ELSE pos[c]],
     rows |-> appended([i \in 1..Len(wanted) |-> helper_round(pos, wanted, i)],
                       1, Len(wanted)),
     chosen |-> [c \in {wanted[i] : i \in hit} |->
                    helper_sorted(pos, wanted, last_index(wanted, c))[1]]]

----------------------------------------------------------------------------
(* keymap_programming_keys.py *)

pk_WANTED_CHARS ==
    list("abcdefghijklmnopqrstuvwxyz") \o <<"ñ">> \o
    list("0123456789") \o
    list("[]{}()<>/\\|~^") \o <<BACKTICK>> \o list("@#$%&*+-_=;:,\"'!?.") \o
    <<"¿", "¡", "°", "¬">>

pk_KEYSYM_TO_CHAR ==
    ("parenleft" :> "(") @@ ("parenright" :> ")") @@
    ("bracketleft" :> "[") @@ ("bracketright" :> "]") @@
    ("braceleft" :> "{") @@ ("braceright" :> "}") @@
    ("less" :> "<") @@ ("greater" :> ">") @@
    ("slash" :> "/") @@ ("backslash" :> "\\") @@
    ("bar" :> "|") @@ ("asciitilde" :> "~") @@
    ("asciicircum" :> "^") @@ ("grave" :> BACKTICK) @@
    ("at" :> "@") @@ ("numbersign" :> "#") @@ ("dollar" :> "$") @@
    ("percent" :> "%") @@ ("ampersand" :> "&") @@ ("asterisk" :> "*") @@
    ("minus" :> "-") @@ ("underscore" :> "_") @@
    ("equal" :> "=") @@ ("plus" :> "+") @@
    ("semicolon" :> ";") @@ ("colon" :> ":") @@
    ("quotedbl" :> "\"") @@ ("apostrophe" :> "'") @@
    ("comma" :> ",") @@ ("period" :> ".") @@
    ("question" :> "?") @@ ("exclam" :> "!") @@
    ("exclamdown" :> "¡") @@ ("questiondown" :> "¿") @@
    ("degree" :> "°") @@ ("notsign" :> "¬") @@
    ("ntilde" :> "ñ") @@ ("Ntilde" :> "Ñ") @@
    ("space" :> " ")

parse_pke(text) == parse_lines(text, <<>>)

pk_keysym_to_char(sym) ==
    IF startswith(sym, DEAD_PREFIX) THEN sym
    ELSE IF sym \in DOMAIN pk_KEYSYM_TO_CHAR THEN pk_KEYSYM_TO_CHAR[sym]
    ELSE IF Len(sym) = 1 THEN sym
    ELSE IF Len(sym) = 1 /\ isalpha(sym) THEN sym
    ELSE IF Len(sym) = 1 THEN sym
    ELSE None

\* the characters of the raw string prefer_key_label tests membership in
pk_label_chars ==
    Range(list("-_=+[]{}()<>/\\\\|;:'\\\",.#!?@^~")) \cup {BACKTICK} \cup
    Range(list("%$&*°¬¿¡ "))

RECURSIVE pk_label_scan(_, _)
pk_label_scan(level_syms, i) ==
    IF i > NumLevels THEN None
    ELSE LET ch == pk_keysym_to_char(level_syms[i]) IN
         IF /\ ch # None /\ ~startswith(ch, DEAD_PREFIX)
            /\ Len(ch) = 1 /\ (isalnum(ch) \/ ch \in pk_label_chars)
         THEN ch
         ELSE pk_label_scan(level_syms, i + 1)

pk_prefer_key_label(level_syms) ==
    LET ch == pk_label_scan(level_syms, 1) IN
    IF ch # None THEN ch
    ELSE IF pk_keysym_to_char(level_syms[1]) # None THEN pk_keysym_to_char(level_syms[1])
    ELSE level_syms[1]

pk_indexed(sym) ==
    /\ sym # NoSymbol
    /\ pk_keysym_to_char(sym) # None
    /\ ~startswith(pk_keysym_to_char(sym), DEAD_PREFIX)

RECURSIVE find_levels(_, _, _, _)
find_levels(pos, code, syms, lvl) ==
    IF lvl >= Len(syms) THEN pos
    ELSE LET sym == syms[lvl + 1] IN
         IF pk_indexed(sym)
         THEN find_levels(dd_append(pos, pk_keysym_to_char(sym), <<code, lvl, sym, syms>>),
                          code, syms, lvl + 1)
         ELSE find_levels(pos, code, syms, lvl + 1)

RECURSIVE find_keys(_, _)
find_keys(pos, km) ==
    IF km = <<>> THEN pos
    ELSE find_keys(find_levels(pos, Head(km).code, Head(km).syms, 0), Tail(km))

find_char_positions(km) == find_keys(<<>>, km)

lvl_to_combo(lvl) ==
    CASE lvl = 0 -> ""
      [] lvl = 1 -> "Shift+"
      [] lvl = 2 -> "AltGr+"
      [] lvl = 3 -> "Shift+AltGr+"
      [] OTHER -> ""

missing_row(want) == <<want, DASH, DASH, DASH, "No hallado en este layout">>

\* found of a round of keymap_programming_keys.main
pk_found(pos, want) == IF get(pos, want) = None THEN <<>> ELSE get(pos, want)

pk_round_always(pos, show, want) ==
    IF pk_found(pos, want) = <<>> THEN <<missing_row(want)>>
    ELSE << <<want, pk_prefer_key_label(sort_by_level(pk_found(pos, want))[1][4]),
              IF lvl_to_combo(sort_by_level(pk_found(pos, want))[1][2]) # ""
              THEN droplast(lvl_to_combo(sort_by_level(pk_found(pos, want))[1][2])) ELSE DASH,
              sort_by_level(pk_found(pos, want))[1][3],
              lvl_to_combo(sort_by_level(pk_found(pos, want))[1][2]) \o "Tecla(" \o
                  pk_prefer_key_label(sort_by_level(pk_found(pos, want))[1][4]) \o ")">> >>
\* what the round for want appends to rows
pk_round(pos, show, want) ==
    IF pk_found(pos, want) = <<>>
    THEN IF show THEN <<missing_row(want)>> ELSE <<>>
    ELSE LET found_sorted == sort_by_level(pk_found(pos, want))
             lvl == found_sorted[1][2]
             sym == found_sorted[1][3]
             combo == lvl_to_combo(lvl)
             key_label == pk_prefer_key_label(found_sorted[1][4])
             example == combo \o "Tecla(" \o key_label \o ")"
         IN << <<want, key_label, IF combo # "" THEN droplast(combo) ELSE DASH,
                 sym, example>> >>

\* the loop of keymap_programming_keys.main: [rows, chosen] when it ends
pk_loop(pos, show, wanted) ==
    [rows |-> appended([i \in 1..Len(wanted) |-> pk_round(pos, show, wanted[i])],
                       1, Len(wanted)),
     chosen |-> [c \in {wanted[i] : i \in {j \in 1..Len(wanted) : pk_found(pos, wanted[j]) # <<>>}} |->
                    sort_by_level(pk_found(pos, c))[1]]]

----------------------------------------------------------------------------
(* keyboard_combo_inspector.py: the suggestion function *)

kci_BASE_KEYSYM_TO_QMK ==
    [c \in Range(ascii_lowercase) |-> "KC_" \o upper(c)] @@
    [c \in Range(ascii_uppercase) |-> "KC_" \o c] @@
    [d \in Range(Digits) |-> "KC_" \o d] @@
    ("-" :> "KC_MINS") @@ ("=" :> "KC_EQL") @@
    ("[" :> "KC_LBRC") @@ ("]" :> "KC_RBRC") @@
    ("\\" :> "KC_BSLS") @@
    (";" :> "KC_SCLN") @@ ("'" :> "KC_QUOT") @@
    ("," :> "KC_COMM") @@ ("." :> "KC_DOT") @@ ("/" :> "KC_SLSH") @@
    (BACKTICK :> "KC_GRV") @@ (" " :> "KC_SPC")

EXTRA_CHAR_TO_QMK ==
    ("ñ" :> "KC_SCLN") @@ ("Ñ" :> "S(KC_SCLN)") @@
    ("¡" :> "S(KC_1)") @@ ("¿" :> "RALT(KC_SLASH)")

\* kc of qmk_from_char_and_mods before the wrapping
kci_kc(base_char) ==
    LET kc1 == IF base_char # None THEN get(kci_BASE_KEYSYM_TO_QMK, base_char) ELSE None
        kc2 == IF base_char # None /\ kc1 = None THEN get(EXTRA_CHAR_TO_QMK, base_char) ELSE kc1
        kc3 == IF base_char # None /\ kc2 = None /\ Len(base_char) = 1 /\ isalpha(base_char)
               THEN get(kci_BASE_KEYSYM_TO_QMK, lower(base_char)) ELSE kc2
    IN IF kc3 = None THEN "<KC_BASE_DESCONOCIDA>" ELSE kc3

wrap_one_modifier(kc, shift, ralt) ==
    IF ralt THEN "RALT(" \o kc \o ")"
    ELSE IF shift THEN "S(" \o kc \o ")"
    ELSE kc

\* the if / elif chain at the end of qmk_from_char_and_mods
wrap(kc, shift, ralt) ==
    IF shift /\ ralt THEN "S(RALT(" \o kc \o "))"
    ELSE IF ralt THEN "RALT(" \o kc \o ")"
    ELSE IF shift THEN "S(" \o kc \o ")"
    ELSE kc

qmk_from_char_and_mods(base_char, shift, ralt) == wrap(kci_kc(base_char), shift, ralt)

\* KeyEventInfo.altgr and KeyEventInfo.qmk_suggestion
altgr(info) == info.alt_r
qmk_suggestion(info) ==
    qmk_from_char_and_mods(IF info.char # "" THEN info.char ELSE None, info.shift, altgr(info))

----------------------------------------------------------------------------
(* keyboard_combo_inspector.py: the Tk/XKB backend *)

\* "+".join(mods)
RECURSIVE join(_)
join(mods) ==
    IF mods = <<>> THEN ""
    ELSE IF Len(mods) = 1 THEN mods[1]
    ELSE mods[1] \o "+" \o join(Tail(mods))

\* the keysym of every key of the keyboard in front of the window, and the
\* keycode X reports for it
TkKeycode ==
    ("Shift_L" :> "50") @@ ("Shift_R" :> "62") @@ ("Control_L" :> "37") @@
    ("Alt_L" :> "64") @@ ("Alt_R" :> "108") @@ ("ISO_Level3_Shift" :> "92") @@
    ("Mode_switch" :> "203") @@ ("Meta_L" :> "205") @@ ("Super_L" :> "133") @@
    ("a" :> "38") @@ ("ntilde" :> "47")
TkKeys == DOMAIN TkKeycode
LetterKeys == {"a", "ntilde"}
\* event.char of a key press: nothing for a modifier, and for a letter what
\* the modifiers in force make of it
TkChars(ks) ==
    IF ks = "a" THEN {"a", "A", "@", ""}
    ELSE IF ks = "ntilde" THEN {"ñ", "Ñ", ""}
    ELSE {""}
TkPresses == UNION {{[keysym |-> ks, char |-> ch, keycode |-> TkKeycode[ks]] : ch \in TkChars(ks)} :
                     ks \in TkKeys}

NoInfo == [source |-> "", key |-> "", char |-> "", ctrl |-> FALSE, shift |-> FALSE,
           alt_l |-> FALSE, alt_r |-> FALSE, meta |-> FALSE, super |-> FALSE,
           comment |-> ""]

TkInit ==
    /\ tk_mods = [Shift |-> FALSE, Control |-> FALSE, Alt_L |-> FALSE,
                  Alt_R |-> FALSE, Meta |-> FALSE, Super |-> FALSE]
    /\ held = {}
    /\ armed = FALSE
    /\ xkb_info = NoInfo
    /\ var_xkb_combo = ""
    /\ var_xkb_key = ""
    /\ var_xkb_char = ""
    /\ var_xkb_qmk = ""
    /\ txt_xkb_log = ""

\* the flag updates at the head of on_keypress_tk
press_mods_no_level3(mods, ks) ==
    IF ks \in {"Shift_L", "Shift_R"} THEN [mods EXCEPT !.Shift = TRUE]
    ELSE IF ks = "Control_L" \/ ks = "Control_R" THEN mods
    ELSE IF ks = "Alt_L" THEN [mods EXCEPT !.Alt_L = TRUE]
    ELSE IF ks = "Alt_R" \/ ks = "Mode_switch" THEN [mods EXCEPT !.Alt_R = TRUE]
    ELSE IF ks \in {"Meta_L", "Meta_R"} THEN [mods EXCEPT !.Meta = TRUE]
    ELSE IF ks \in {"Super_L", "Super_R"} THEN [mods EXCEPT !.Super = TRUE]
    ELSE mods
press_mods(mods, ks) ==
    IF ks \in {"Shift_L", "Shift_R"} THEN [mods EXCEPT !.Shift = TRUE]
    ELSE IF ks = "Control_L" \/ ks = "Control_R" THEN mods
    ELSE IF ks = "Alt_L" THEN [mods EXCEPT !.Alt_L = TRUE]
    ELSE IF ks = "Alt_R" \/ ks = "ISO_Level3_Shift" \/ ks = "Mode_switch"
         THEN [mods EXCEPT !.Alt_R = TRUE]
    ELSE IF ks \in {"Meta_L", "Meta_R"} THEN [mods EXCEPT !.Meta = TRUE]
    ELSE IF ks \in {"Super_L", "Super_R"} THEN [mods EXCEPT !.Super = TRUE]
    ELSE mods

\* on_keyrelease_tk
release_mods(mods, ks) ==
    IF ks \in {"Shift_L", "Shift_R"} THEN [mods EXCEPT !.Shift = FALSE]
    ELSE IF ks = "Alt_L" THEN [mods EXCEPT !.Alt_L = FALSE]
    ELSE IF ks = "Alt_R" \/ ks = "ISO_Level3_Shift" \/ ks = "Mode_switch"
         THEN [mods EXCEPT !.Alt_R = FALSE]
    ELSE IF ks \in {"Meta_L", "Meta_R"} THEN [mods EXCEPT !.Meta = FALSE]
    ELSE IF ks \in {"Super_L", "Super_R"} THEN [mods EXCEPT !.Super = FALSE]
    ELSE mods

\* the combination label of _update_xkb
xkb_combo(info) ==
    LET mods == (IF info.shift THEN <<"Shift">> ELSE <<>>) \o
                (IF info.alt_l THEN <<"Alt_L">> ELSE <<>>) \o
                (IF info.alt_r THEN <<"Alt_R (AltGr)">> ELSE <<>>) \o
                (IF info.meta THEN <<"Meta">> ELSE <<>>) \o
                (IF info.super THEN <<"Super">> ELSE <<>>)
    IN IF mods # <<>> THEN join(mods) ELSE DASH

_update_xkb(info) ==
    /\ var_xkb_combo' = xkb_combo(info)
    /\ var_xkb_key' = info.key
    /\ var_xkb_char' = (IF info.char # "" THEN info.char ELSE DASH)
    /\ var_xkb_qmk' = qmk_suggestion(info)
    /\ txt_xkb_log' = "[XKB] " \o xkb_combo(info) \o " | key=" \o info.key \o " char='" \o
                      info.char \o "' | " \o qmk_suggestion(info) \o "  (" \o
                      info.comment \o ")\n"

AltGrAliases == {"Alt_R", "ISO_Level3_Shift", "Mode_switch"}

on_keypress_tk(event) ==
    /\ event.keysym \notin held
    /\ Cardinality(held) < MaxHeld
    /\ held' = held \cup {event.keysym}
    /\ armed' = (armed \/ event.keysym = "ISO_Level3_Shift")
    /\ tk_mods' = press_mods(tk_mods, event.keysym)
    /\ xkb_info' = [source |-> "XKB", key |-> event.keysym, char |-> event.char,
                    ctrl |-> FALSE, shift |-> tk_mods'.Shift, alt_l |-> tk_mods'.Alt_L,
                    alt_r |-> tk_mods'.Alt_R, meta |-> tk_mods'.Meta,
                    super |-> tk_mods'.Super,
                    comment |-> "Tk keysym=" \o event.keysym \o ", keycode=" \o event.keycode]
    /\ _update_xkb(xkb_info')
    /\ UNCHANGED static_vars
    /\ UNCHANGED ev_vars

on_keyrelease_tk(event) ==
    /\ event.keysym \in held
    /\ held' = held \ {event.keysym}
    /\ armed' = (armed /\ event.keysym \notin AltGrAliases)
    /\ tk_mods' = release_mods(tk_mods, event.keysym)
    /\ UNCHANGED <<xkb_info, var_xkb_combo, var_xkb_key, var_xkb_char, var_xkb_qmk, txt_xkb_log>>
    /\ UNCHANGED static_vars
    /\ UNCHANGED ev_vars

KeyPress == \E event \in TkPresses : on_keypress_tk(event)
KeyRelease == \E ks \in TkKeys : on_keyrelease_tk([keysym |-> ks])

----------------------------------------------------------------------------
(* keyboard_combo_inspector.py: the evdev backend *)

\* val.split(sep)[0]
RECURSIVE split_head(_, _)
split_head(val, sep) ==
    IF Len(val) < Len(sep) THEN val
    ELSE IF startswith(val, sep) THEN ""
    ELSE SubSeq(val, 1, 1) \o split_head(SubSeq(val, 2, Len(val)), sep)

\* str.strip() for blanks
RECURSIVE strip(_)
strip(s) ==
    IF s = "" THEN s
    ELSE IF SubSeq(s, 1, 1) = " " THEN strip(SubSeq(s, 2, Len(s)))
    ELSE IF SubSeq(s, Len(s), Len(s)) = " " THEN strip(SubSeq(s, 1, Len(s) - 1))
    ELSE s

\* the entries refresh_devices may leave selected
NoDevices == "(No se encontraron dispositivos)"
DevEntries == {NoDevices, "/dev/input/event3  " \o DASH \o "  kbd"}

\* ecodes.KEY for the scancodes of the captured keyboard; scancode 767 has
\* no name
ecodes_KEY ==
    ("42" :> "KEY_LEFTSHIFT") @@ ("54" :> "KEY_RIGHTSHIFT") @@
    ("56" :> "KEY_LEFTALT") @@ ("100" :> "KEY_RIGHTALT") @@
    ("29" :> "KEY_LEFTCTRL") @@ ("125" :> "KEY_LEFTMETA") @@
    ("30" :> "KEY_A") @@ ("105" :> "KEY_LEFT")
Scancodes == DOMAIN ecodes_KEY \cup {"767"}
\* the events dev.read_loop() yields
RawEvents ==
    {[type |-> "EV_KEY", scancode |-> c, keystate |-> k] :
        c \in Scancodes, k \in {"key_down", "key_up", "key_hold"}}
    \cup {[type |-> "EV_SYN", scancode |-> "0", keystate |-> ""]}
\* the exceptions InputDevice() and read_loop() raise
OpenErrors == {"[Errno 13] Permission denied"}
ReadErrors == {"[Errno 19] No such device"}

\* keyname of _evdev_loop
keyname_of(keycode) == IF keycode \in DOMAIN ecodes_KEY THEN ecodes_KEY[keycode] ELSE keycode

\* pressed or (not released and flag)
ev_flag(pressed, released, flag) == pressed \/ (~released /\ flag)

\* the flag updates of _evdev_loop
ev_update_mods(mods, keyname, pressed, released) ==
    IF keyname \in {"KEY_LEFTSHIFT", "KEY_RIGHTSHIFT"}
    THEN [mods EXCEPT !.Shift = ev_flag(pressed, released, mods.Shift)]
    ELSE IF keyname \in {"KEY_LEFTALT"}
    THEN [mods EXCEPT !.Alt_L = ev_flag(pressed, released, mods.Alt_L)]
    ELSE IF keyname \in {"KEY_RIGHTALT"}
    THEN [mods EXCEPT !.Alt_R = ev_flag(pressed, released, mods.Alt_R)]
    ELSE IF keyname \in {"KEY_LEFTCTRL", "KEY_RIGHTCTRL"}
    THEN [mods EXCEPT !.Ctrl = ev_flag(pressed, released, mods.Ctrl)]
    ELSE IF keyname \in {"KEY_LEFTMETA", "KEY_RIGHTMETA"}
    THEN [mods EXCEPT !.Super = ev_flag(pressed, released, mods.Super)]
    ELSE mods

\* the test that guards queue.put(info)
ev_shown(keyname, pressed) ==
    pressed /\ ~(startswith(keyname, "KEY_LEFT") \/ startswith(keyname, "KEY_RIGHT"))

ev_snapshot_merged(mods, keyname, keycode) ==
    [source |-> "evdev", key |-> keyname, char |-> "",
     ctrl |-> mods.Ctrl, shift |-> mods.Shift \/ tk_mods.Shift, alt_l |-> mods.Alt_L,
     alt_r |-> mods.Alt_R, meta |-> FALSE, super |-> mods.Super,
     comment |-> "scancode=" \o keycode]

\* the KeyEventInfo the loop builds
ev_snapshot(mods, keyname, keycode) ==
    [source |-> "evdev", key |-> keyname, char |-> "",
     ctrl |-> mods.Ctrl, shift |-> mods.Shift, alt_l |-> mods.Alt_L,
     alt_r |-> mods.Alt_R, meta |-> FALSE, super |-> mods.Super,
     comment |-> "scancode=" \o keycode]

\* what the queue holds: a KeyEventInfo or a string
InfoItem(info) == [isinfo |-> TRUE, info |-> info, text |-> ""]
StrItem(text) == [isinfo |-> FALSE, info |-> NoInfo, text |-> text]

EvInit ==
    /\ ev_mods = [Shift |-> FALSE, Ctrl |-> FALSE, Alt_L |-> FALSE,
                  Alt_R |-> FALSE, Meta |-> FALSE, Super |-> FALSE]
    /\ ev_pc = "none"
    /\ ev_exc = ""
    /\ ev_stop = FALSE
    /\ ev_dev_path = None
    /\ queue = <<>>
    /\ var_ev_combo = ""
    /\ var_ev_key = ""
    /\ var_ev_char = ""
    /\ var_ev_qmk = ""
    /\ txt_ev_log = ""
    /\ messagebox = ""
    /\ ui_pc = "idle"
    /\ ev_held = {}
    /\ ev_armed = FALSE
    /\ enqueued = <<>>
    /\ displayed = <<>>

\* ev_thread.is_alive()
is_alive == ev_pc \in {"open", "read", "except"}

ev_ui_vars == <<var_ev_combo, var_ev_key, var_ev_char, var_ev_qmk, txt_ev_log, messagebox,
               ui_pc, displayed>>
ev_worker_vars == <<ev_mods, ev_pc, ev_exc, queue, ev_armed, enqueued>>

start_evdev_capture_twice(readable) ==
    /\ ui_pc = "idle"
    /\ IF ~HAVE_EVDEV
       THEN /\ messagebox' = "evdev no disponible"
            /\ UNCHANGED <<ev_dev_path, ev_stop, ev_pc, txt_ev_log>>
       ELSE IF cmb_devices = "" \/ startswith(cmb_devices, "(")
       THEN /\ messagebox' = "Sin dispositivo"
            /\ UNCHANGED <<ev_dev_path, ev_stop, ev_pc, txt_ev_log>>
       ELSE /\ ev_dev_path' = strip(split_head(cmb_devices, "  " \o DASH \o "  "))
            /\ IF ~readable
               THEN /\ messagebox' = "Permisos"
                    /\ UNCHANGED <<ev_stop, ev_pc, txt_ev_log>>
               ELSE /\ ev_stop' = FALSE
                    /\ ev_pc' = "open"
                    /\ txt_ev_log' = "[evdev] Captura iniciada en " \o ev_dev_path' \o "\n"
                    /\ UNCHANGED messagebox
    /\ UNCHANGED <<HAVE_EVDEV, cmb_devices, ev_mods, ev_exc, queue, var_ev_combo,
                   var_ev_key, var_ev_char, var_ev_qmk, ui_pc, ev_held, ev_armed,
                   enqueued, displayed>>
    /\ UNCHANGED <<static_vars, tk_vars>>

\* readable: what os.access(self.ev_dev_path, os.R_OK) answers
start_evdev_capture(readable) ==
    /\ ui_pc = "idle"
    /\ IF ~HAVE_EVDEV
       THEN /\ messagebox' = "evdev no disponible"
            /\ UNCHANGED <<ev_dev_path, ev_stop, ev_pc, txt_ev_log>>
       ELSE IF cmb_devices = "" \/ startswith(cmb_devices, "(")
       THEN /\ messagebox' = "Sin dispositivo"
            /\ UNCHANGED <<ev_dev_path, ev_stop, ev_pc, txt_ev_log>>
       ELSE /\ ev_dev_path' = strip(split_head(cmb_devices, "  " \o DASH \o "  "))
            /\ IF ~readable
               THEN /\ messagebox' = "Permisos"
                    /\ UNCHANGED <<ev_stop, ev_pc, txt_ev_log>>
               ELSE IF is_alive
               THEN /\ messagebox' = "Captura"
                    /\ UNCHANGED <<ev_stop, ev_pc, txt_ev_log>>
               ELSE /\ ev_stop' = FALSE
                    /\ ev_pc' = "open"
                    /\ txt_ev_log' = "[evdev] Captura iniciada en " \o ev_dev_path' \o "\n"
                    /\ UNCHANGED messagebox
    /\ UNCHANGED <<HAVE_EVDEV, cmb_devices, ev_mods, ev_exc, queue, var_ev_combo,
                   var_ev_key, var_ev_char, var_ev_qmk, ui_pc, ev_held, ev_armed,
                   enqueued, displayed>>
    /\ UNCHANGED <<static_vars, tk_vars>>

\* what a raw key event does to the keys that are down
held_after(h, event) ==
    IF event.type # "EV_KEY" THEN h
    ELSE IF event.keystate = "key_down" THEN h \cup {event.scancode}
    ELSE IF event.keystate = "key_up" THEN h \ {event.scancode}
    ELSE h
\* a key goes down when it is up, and comes up or repeats when it is down
Physical(event) ==
    \/ event.type # "EV_KEY"
    \/ event.keystate = "key_down" /\ event.scancode \notin ev_held /\ Cardinality(ev_held) < MaxHeld
    \/ event.keystate \in {"key_up", "key_hold"} /\ event.scancode \in ev_held

\* dev = InputDevice(self.ev_dev_path)
evdev_open ==
    /\ ev_pc = "open"
    /\ \/ ev_pc' = "read" /\ UNCHANGED ev_exc
       \/ /\ Len(enqueued) < MaxItems
          /\ \E e \in OpenErrors : ev_pc' = "except" /\ ev_exc' = e
    /\ UNCHANGED <<HAVE_EVDEV, cmb_devices, ev_mods, ev_stop, ev_dev_path, queue,
                   ev_held, ev_armed, enqueued>>
    /\ UNCHANGED <<ev_ui_vars, static_vars, tk_vars>>

\* one iteration of for event in dev.read_loop()
evdev_event(event) ==
    /\ ev_pc = "read"
    /\ Physical(event)
    /\ (event.type = "EV_KEY" /\ ev_shown(keyname_of(event.scancode), event.keystate = "key_down"))
           => Len(enqueued) < MaxItems
    /\ ev_held' = held_after(ev_held, event)
    /\ IF ev_stop
       THEN /\ ev_pc' = "done"
            /\ UNCHANGED <<ev_mods, queue, enqueued, ev_armed>>
       ELSE IF event.type # "EV_KEY"
       THEN UNCHANGED <<ev_pc, ev_mods, queue, enqueued, ev_armed>>
       ELSE LET keycode == event.scancode
                keyname == keyname_of(keycode)
                pressed == event.keystate = "key_down"
                released == event.keystate = "key_up"
                info == ev_snapshot(ev_mods', keyname, keycode)
            IN /\ ev_mods' = ev_update_mods(ev_mods, keyname, pressed, released)
               /\ ev_armed' = IF keyname = "KEY_RIGHTALT" /\ pressed THEN TRUE
                              ELSE IF keyname = "KEY_RIGHTALT" /\ released THEN FALSE
                              ELSE ev_armed
               /\ IF ev_shown(keyname, pressed)
                  THEN /\ queue' = Append(queue, InfoItem(info))
                       /\ enqueued' = Append(enqueued, InfoItem(info))
                  ELSE UNCHANGED <<queue, enqueued>>
               /\ UNCHANGED ev_pc
    /\ UNCHANGED <<HAVE_EVDEV, cmb_devices, ev_exc, ev_stop, ev_dev_path>>
    /\ UNCHANGED <<ev_ui_vars, static_vars, tk_vars>>

\* read_loop() raises
evdev_read_error ==
    /\ ev_pc = "read"
    /\ Len(enqueued) < MaxItems
    /\ \E e \in ReadErrors : ev_exc' = e
    /\ ev_pc' = "except"
    /\ UNCHANGED <<HAVE_EVDEV, cmb_devices, ev_mods, ev_stop, ev_dev_path, queue,
                   ev_held, ev_armed, enqueued>>
    /\ UNCHANGED <<ev_ui_vars, static_vars, tk_vars>>

evdev_except_silent ==
    /\ ev_pc = "except"
    /\ ev_pc' = "done"
    /\ UNCHANGED <<HAVE_EVDEV, cmb_devices, ev_mods, ev_exc, ev_stop, ev_dev_path,
                   queue, enqueued, ev_held, ev_armed>>
    /\ UNCHANGED <<ev_ui_vars, static_vars, tk_vars>>

\* except Exception as e: self.queue.put(...)
evdev_except ==
    /\ ev_pc = "except"
    /\ queue' = Append(queue, StrItem("[evdev] Error: " \o ev_exc))
    /\ enqueued' = Append(enqueued, StrItem("[evdev] Error: " \o ev_exc))
    /\ ev_pc' = "done"
    /\ UNCHANGED <<HAVE_EVDEV, cmb_devices, ev_mods, ev_exc, ev_stop, ev_dev_path,
                   ev_held, ev_armed>>
    /\ UNCHANGED <<ev_ui_vars, static_vars, tk_vars>>

\* the combination label of _update_evdev
ev_combo(info) ==
    LET mods == (IF info.shift THEN <<"Shift">> ELSE <<>>) \o
                (IF info.alt_l THEN <<"Alt_L">> ELSE <<>>) \o
                (IF info.alt_r THEN <<"Alt_R (AltGr)">> ELSE <<>>) \o
                (IF info.super THEN <<"Super">> ELSE <<>>) \o
                (IF info.ctrl THEN <<"Ctrl">> ELSE <<>>)
    IN IF mods # <<>> THEN join(mods) ELSE DASH

ev_qmk(info) ==
    qmk_from_char_and_mods(IF info.char # "" THEN info.char ELSE None, info.shift, altgr(info))

_update_evdev_current_flags(info) ==
    LET now == [info EXCEPT !.shift = ev_mods.Shift, !.alt_l = ev_mods.Alt_L,
                            !.alt_r = ev_mods.Alt_R, !.super = ev_mods.Super,
                            !.ctrl = ev_mods.Ctrl]
    IN /\ var_ev_combo' = ev_combo(now)
       /\ var_ev_key' = info.key \o " (" \o info.comment \o ")"
       /\ var_ev_char' = DASH
       /\ var_ev_qmk' = ev_qmk(now)
       /\ txt_ev_log' = "[evdev] " \o ev_combo(now) \o " | " \o info.key \o " | " \o
                         ev_qmk(now) \o "\n"

_update_evdev(info) ==
    /\ var_ev_combo' = ev_combo(info)
    /\ var_ev_key' = info.key \o " (" \o info.comment \o ")"
    /\ var_ev_char' = DASH
    /\ var_ev_qmk' = ev_qmk(info)
    /\ txt_ev_log' = "[evdev] " \o ev_combo(info) \o " | " \o info.key \o " | " \o
                      ev_qmk(info) \o "\n"

\* the timer set by self.after(30, self._drain_queue) fires
drain_begin ==
    /\ ui_pc = "idle"
    /\ ui_pc' = "drain"
    /\ UNCHANGED <<HAVE_EVDEV, cmb_devices, ev_stop, ev_dev_path, ev_held,
                   var_ev_combo, var_ev_key, var_ev_char, var_ev_qmk, txt_ev_log, messagebox,
                   displayed>>
    /\ UNCHANGED <<ev_worker_vars, static_vars, tk_vars>>

\* item = self.queue.get_nowait() and its display
drain_item ==
    /\ ui_pc = "drain"
    /\ queue # <<>>
    /\ queue' = Tail(queue)
    /\ displayed' = Append(displayed, Head(queue))
    /\ IF Head(queue).isinfo
       THEN _update_evdev(Head(queue).info)
       ELSE /\ txt_ev_log' = Head(queue).text \o "\n"
            /\ UNCHANGED <<var_ev_combo, var_ev_key, var_ev_char, var_ev_qmk>>
    /\ UNCHANGED <<HAVE_EVDEV, cmb_devices, ev_mods, ev_pc, ev_exc, ev_stop, ev_dev_path,
                   messagebox, ui_pc, ev_held, ev_armed, enqueued>>
    /\ UNCHANGED <<static_vars, tk_vars>>

\* queue.Empty ends the loop and the timer is set again
drain_end ==
    /\ ui_pc = "drain"
    /\ queue = <<>>
    /\ ui_pc' = "idle"
    /\ UNCHANGED <<HAVE_EVDEV, cmb_devices, ev_stop, ev_dev_path, ev_held,
                   var_ev_combo, var_ev_key, var_ev_char, var_ev_qmk, txt_ev_log, messagebox,
                   displayed>>
    /\ UNCHANGED <<ev_worker_vars, static_vars, tk_vars>>

_drain_queue == drain_begin \/ drain_item \/ drain_end

----------------------------------------------------------------------------
(* The layouts explored: what xmodmap -pke may print *)

SeqsUpTo(S, n) == UNION {[1..k -> S] : k \in 0..n}

\* one line "keycode <code> = <toks>"
Line(code, toks) == [code |-> code, toks |-> toks]

CoreTokens == {NoSymbol, "a", "at"}
FullTokens == {NoSymbol, "a", "A", "1", "ntilde", "Ntilde", "at", "grave", "Escape",
               "dead_grave", "dead_acute", "dead_tilde", "dead_circumflex"}
TieTokens == {NoSymbol, "a"}

\* rows of four tokens with at most n symbols among them
SparseRows(n) ==
    {r \in [1..NumLevels -> FullTokens] :
        Cardinality({i \in 1..NumLevels : r[i] # NoSymbol}) <= n}

\* one key: every number of tokens, or every pair of symbols on four levels
OneKeyLayouts ==
    {<<Line(38, toks)>> : toks \in SeqsUpTo(CoreTokens, MaxToks) \cup SparseRows(2)}

\* several keys that all produce the same character
TieLayouts ==
    UNION {[1..n -> {Line(0, toks) : toks \in [1..NumLevels -> TieTokens]}] : n \in 0..MaxKeys}

KeyCodes(layout) == [i \in 1..Len(layout) |-> Line(23 + i, layout[i].toks)]

\* key 38 next to one other key, before or after it
PairLayouts ==
    UNION {{<<Line(38, r), Line(39, o)>>, <<Line(24, o), Line(38, r)>>} :
            r \in {<<"a", "A">>, <<"a", "A", NoSymbol, NoSymbol>>, <<"ntilde", "Ntilde">>,
                   <<"ntilde", "Ntilde", NoSymbol, NoSymbol>>},
            o \in SparseRows(1)}

Layouts == OneKeyLayouts \cup {KeyCodes(l) : l \in TieLayouts} \cup PairLayouts

Init ==
    /\ DISPLAY \in BOOLEAN
    /\ argv \in SUBSET {"--all"}
    /\ pke \in IF DISPLAY THEN Layouts ELSE {<<>>}
    /\ prog = "none"
    /\ pc = "start"
    /\ keymap = <<>>
    /\ positions = <<>>
    /\ show_missing = FALSE
    /\ rows = <<>>
    /\ chosen = <<>>
    /\ TkInit
    /\ HAVE_EVDEV = FALSE
    /\ cmb_devices = ""
    /\ EvInit

----------------------------------------------------------------------------
(* The two static resolvers *)

MainHelper_no_empty_check ==
    /\ pc = "start"
    /\ prog' = "kbmap_qmk_helper"
    /\ IF ~DISPLAY
       THEN pc' = "exit1" /\ UNCHANGED <<keymap, positions, rows, chosen>>
       ELSE LET km == parse_xmodmap_pke(pke)
                st == helper_loop(build_positions(km), WANTED_CHARS)
            IN /\ keymap' = km
               /\ positions' = st.positions
               /\ rows' = st.rows
               /\ chosen' = st.chosen
               /\ pc' = IF st.rows = <<>> THEN "exit2" ELSE "exit0"
    /\ UNCHANGED <<DISPLAY, argv, pke, show_missing>>
    /\ UNCHANGED tk_vars
    /\ UNCHANGED ev_vars

\* kbmap_qmk_helper.main
MainHelper ==
    /\ pc = "start"
    /\ prog' = "kbmap_qmk_helper"
    /\ IF ~DISPLAY
       THEN pc' = "exit1" /\ UNCHANGED <<keymap, positions, rows, chosen>>
       ELSE LET km == parse_xmodmap_pke(pke) IN
            IF km = <<>>
            THEN pc' = "exit1" /\ keymap' = km /\ UNCHANGED <<positions, rows, chosen>>
            ELSE LET st == helper_loop(build_positions(km), WANTED_CHARS)
                 IN /\ keymap' = km
                    /\ positions' = st.positions
                    /\ rows' = st.rows
                    /\ chosen' = st.chosen
                    /\ pc' = IF st.rows = <<>> THEN "exit2" ELSE "exit0"
    /\ UNCHANGED <<DISPLAY, argv, pke, show_missing>>
    /\ UNCHANGED tk_vars
    /\ UNCHANGED ev_vars

\* keymap_programming_keys.main
MainProgKeys ==
    /\ pc = "start"
    /\ prog' = "keymap_programming_keys"
    /\ show_missing' = ("--all" \in argv)
    /\ IF ~DISPLAY
       THEN pc' = "exit1" /\ UNCHANGED <<keymap, positions, rows, chosen>>
       ELSE LET km == parse_pke(pke) IN
            IF km = <<>>
            THEN pc' = "exit1" /\ keymap' = km /\ UNCHANGED <<positions, rows, chosen>>
            ELSE LET pos == find_char_positions(km)
                     st == pk_loop(pos, "--all" \in argv, pk_WANTED_CHARS)
                 IN /\ keymap' = km
                    /\ positions' = pos
                    /\ rows' = st.rows
                    /\ chosen' = st.chosen
                    /\ pc' = IF st.rows = <<>> THEN "exit2" ELSE "exit0"
    /\ UNCHANGED <<DISPLAY, argv, pke>>
    /\ UNCHANGED tk_vars
    /\ UNCHANGED ev_vars

Next == MainHelper \/ MainProgKeys

Spec == Init /\ [][Next]_vars

\* the inspector window: no resolver runs
InitTk ==
    /\ DISPLAY = TRUE
    /\ argv = {}
    /\ pke = <<>>
    /\ prog = "none"
    /\ pc = "start"
    /\ keymap = <<>>
    /\ positions = <<>>
    /\ show_missing = FALSE
    /\ rows = <<>>
    /\ chosen = <<>>
    /\ TkInit
    /\ HAVE_EVDEV = FALSE
    /\ cmb_devices = ""
    /\ EvInit

NextTk == KeyPress \/ KeyRelease

SpecTk == InitTk /\ [][NextTk]_vars

\* the inspector window with both backends: the UI thread and the capture
\* thread interleave
LiveTkPresses == {e \in TkPresses : e.keysym = "Shift_L"}

InitLive ==
    /\ DISPLAY = TRUE
    /\ argv = {}
    /\ pke = <<>>
    /\ prog = "none"
    /\ pc = "start"
    /\ keymap = <<>>
    /\ positions = <<>>
    /\ show_missing = FALSE
    /\ rows = <<>>
    /\ chosen = <<>>
    /\ TkInit
    /\ HAVE_EVDEV \in BOOLEAN
    /\ cmb_devices \in IF HAVE_EVDEV THEN DevEntries ELSE {""}
    /\ EvInit

UiKeyPress == ui_pc = "idle" /\ \E event \in LiveTkPresses : on_keypress_tk(event)
UiKeyRelease == ui_pc = "idle" /\ \E event \in LiveTkPresses : on_keyrelease_tk(event)
\* the keys of the captured keyboard that move while both backends run
LiveRawEvents == {e \in RawEvents : e.scancode \in {"0", "42", "100", "30", "105"}}
Worker ==
    \/ evdev_open
    \/ \E event \in LiveRawEvents : evdev_event(event)
    \/ evdev_read_error
    \/ evdev_except

StartCapture == \E readable \in BOOLEAN : start_evdev_capture(readable)

NextLive ==
    \/ UiKeyPress
    \/ UiKeyRelease
    \/ StartCapture
    \/ _drain_queue
    \/ Worker

SpecLive == InitLive /\ [][NextLive]_vars

----------------------------------------------------------------------------
(* Vocabulary of the properties *)

IsHelper == prog = "kbmap_qmk_helper"
IsProgKeys == prog = "keymap_programming_keys"
Finished == pc \in {"exit0", "exit2"}
Wanted == IF IsHelper THEN WANTED_CHARS ELSE pk_WANTED_CHARS
CharOf(sym) == IF IsHelper THEN keysym_to_char(sym) ELSE pk_keysym_to_char(sym)

Keys == 1..Len(keymap)
Levels == 0..(NumLevels - 1)
HasKey(code) == \E k \in Keys : keymap[k].code = code
RowOf(code) == keymap[CHOOSE k \in Keys : keymap[k].code = code].syms
Occurrence(k, l) == <<keymap[k].code, l, keymap[k].syms[l + 1], keymap[k].syms>>
Produces(k, l, c) == keymap[k].syms[l + 1] # NoSymbol /\ CharOf(keymap[k].syms[l + 1]) = c
Producers(c) == {kl \in Keys \X Levels : Produces(kl[1], kl[2], c)}
IndexEntries == UNION {Range(positions[c]) : c \in DOMAIN positions}

endswith(s, suffix) ==
    Len(s) >= Len(suffix) /\ SubSeq(s, Len(s) - Len(suffix) + 1, Len(s)) = suffix

\* the expression inside the wrappers of a level
Unwrap(l, q) ==
    CASE l = 0 -> q
      [] l = 1 -> SubSeq(q, 3, Len(q) - 1)
      [] l = 2 -> SubSeq(q, 6, Len(q) - 1)
      [] OTHER -> SubSeq(q, 8, Len(q) - 2)
WellWrapped(l, q) ==
    CASE l = 0 -> ~startswith(q, "S(") /\ ~startswith(q, "RALT(")
      [] l = 1 -> startswith(q, "S(") /\ ~startswith(q, "S(RALT(") /\ endswith(q, ")")
      [] l = 2 -> startswith(q, "RALT(") /\ endswith(q, ")")
      [] OTHER -> startswith(q, "S(RALT(") /\ endswith(q, "))")

----------------------------------------------------------------------------
(* C1: batch resolution chooses, for every wanted character that some key   *)
(* produces, an occurrence of minimal level, and among the occurrences of   *)
(* that level the one of the key read first; a character no key produces is *)
(* not resolved.                                                            *)
C1_MinLevelFirstDiscovered ==
    Finished =>
        \A c \in Range(Wanted) :
            IF Producers(c) = {} THEN c \notin DOMAIN chosen
            ELSE /\ c \in DOMAIN chosen
                 /\ \E kl \in Producers(c) :
                       /\ chosen[c] = Occurrence(kl[1], kl[2])
                       /\ \A o \in Producers(c) :
                             kl[2] < o[2] \/ (kl[2] = o[2] /\ kl[1] <= o[1])

\* "a" on level 0 of two keys and on level 2 of one: the first key's level 0 wins
C1_Witness ==
    /\ pc = "exit0"
    /\ "a" \in DOMAIN chosen
    /\ \E k1, k2 \in Keys :
          /\ k1 < k2
          /\ Produces(k1, 0, "a") /\ Produces(k2, 0, "a")
          /\ \E k \in Keys : Produces(k, 2, "a")
          /\ chosen["a"] = Occurrence(k1, 0)

----------------------------------------------------------------------------
Expected(toks) == [j \in 1..NumLevels |-> IF j <= Len(toks) THEN toks[j] ELSE NoSymbol]

(* C2 as claimed: every keycode line of the raw mapping, whatever its        *)
(* number of tokens (0 included), has a row of 4 in the layout model: its    *)
(* first min(n,4) tokens, then NoSymbol.                                     *)
C2_EveryLineHasRow ==
    (pc # "start" /\ DISPLAY) =>
        \A i \in 1..Len(pke) :
            HasKey(pke[i].code) /\ RowOf(pke[i].code) = Expected(pke[i].toks)

(* C2 amended: every keycode line with at least one token has that row; a    *)
(* line without tokens gives its key no row at all; every row of the model   *)
(* has exactly 4 entries.                                                    *)
C2_LinesWithTokensHaveRow ==
    (pc # "start" /\ DISPLAY) =>
        /\ \A i \in 1..Len(pke) :
              IF Len(pke[i].toks) >= 1
              THEN HasKey(pke[i].code) /\ RowOf(pke[i].code) = Expected(pke[i].toks)
              ELSE ~HasKey(pke[i].code)
        /\ \A k \in Keys : Len(keymap[k].syms) = NumLevels

\* a line of more than 4 tokens was parsed and cut
C2_Witness ==
    /\ pc = "exit0"
    /\ \E i \in 1..Len(pke) :
          /\ Len(pke[i].toks) > NumLevels
          /\ pke[i].toks[NumLevels + 1] # NoSymbol
          /\ HasKey(pke[i].code)

----------------------------------------------------------------------------
BaseIn(e) == Unwrap(e[2], qmk_combo_for(e)[3])

ExactlyWrapped ==
    /\ \A e \in IndexEntries :
          LET X == qmk_base(e)
              q == qmk_combo_for(e)[3]
          IN /\ e[2] \in Levels
             /\ e[2] = 0 => q = X
             /\ e[2] = 1 => q = "S(" \o X \o ")"
             /\ e[2] = 2 => q = "RALT(" \o X \o ")"
             /\ e[2] = 3 => q = "S(RALT(" \o X \o "))"
             /\ WellWrapped(e[2], q)
    /\ \A i \in 1..Len(rows) :
          LET e == chosen[rows[i][1]] IN
          /\ e \in IndexEntries
          /\ WellWrapped(e[2], rows[i][4])
          /\ Unwrap(e[2], rows[i][4]) = qmk_base(e)

----------------------------------------------------------------------------
OverrideTable == {"dead_grave", "dead_acute", "dead_tilde"}

(* C4: the reverse index holds no occurrence of NoSymbol, none of a symbol   *)
(* that does not resolve, and none of a dead symbol outside the override     *)
(* table; no character of the index is a dead sentinel.                      *)
C4_NoDeadInIndex ==
    Finished =>
        /\ \A e \in IndexEntries :
              /\ e[3] # NoSymbol
              /\ CharOf(e[3]) # None
              /\ startswith(e[3], DEAD_PREFIX) => e[3] \in OverrideTable
        /\ \A c \in DOMAIN positions :
              /\ ~startswith(c, DEAD_PREFIX)
              /\ positions[c] # <<>>
              /\ \A e \in Range(positions[c]) :
                    \E k \in Keys, l \in Levels : e = Occurrence(k, l) /\ Produces(k, l, c)

\* a key carries a dead symbol outside the table next to an indexed symbol
C4_Witness ==
    /\ pc = "exit0"
    /\ \E k \in Keys, l1, l2 \in Levels :
          /\ keymap[k].syms[l1 + 1] = "dead_circumflex"
          /\ Occurrence(k, l2) \in IndexEntries

----------------------------------------------------------------------------
(* C5 as claimed: in the QMK helper every overridden dead symbol of a row is *)
(* indexed under its bare punctuation character.                             *)
C5_OverrideIndexed ==
    (IsHelper /\ Finished) =>
        \A k \in Keys, l \in Levels :
            keymap[k].syms[l + 1] \in OverrideTable =>
                /\ KEYSYM_TO_CHAR[keymap[k].syms[l + 1]] \in DOMAIN positions
                /\ Occurrence(k, l) \in Range(positions[KEYSYM_TO_CHAR[keymap[k].syms[l + 1]]])

----------------------------------------------------------------------------
\* the symbol the base keycode is looked up from
Seed(e) == IF e[4][1] # NoSymbol THEN e[4][1] ELSE e[3]
LetterOrDigit(x) == Len(x) = 1 /\ (isalpha(x) \/ isdigit(x))
AllStagesFail(e) ==
    /\ ~LetterOrDigit(Seed(e))
    /\ Seed(e) \notin DOMAIN BASE_KEYSYM_TO_QMK
    /\ ~LetterOrDigit(prefer_key_label(e[4]))

MarkerHead == "<KC_BASE_DESCONOCIDA:keysym="
IsMarker(x) == startswith(x, MarkerHead) /\ endswith(x, ">") /\ Len(x) > Len(MarkerHead) + 1
ExtractKeysym(x) == SubSeq(x, Len(MarkerHead) + 1, Len(x) - 1)
MarkerCarriesSeed(e, q) ==
    /\ WellWrapped(e[2], q)
    /\ IsMarker(Unwrap(e[2], q))
    /\ ExtractKeysym(Unwrap(e[2], q)) = Seed(e)

(* C6: when none of the three stages of qmk_combo_for finds a base keycode,  *)
(* the expression is the unknown-base marker wrapped by the level, and the   *)
(* symbol read back out of the marker is the seed symbol: the row's level-0  *)
(* symbol, or the occurrence's own symbol when level 0 is NoSymbol; when a   *)
(* stage succeeds the expression holds no marker.                            *)
C6_MarkerCarriesSymbol ==
    (IsHelper /\ Finished) =>
        /\ \A e \in IndexEntries :
              IF AllStagesFail(e)
              THEN MarkerCarriesSeed(e, qmk_combo_for(e)[3])
              ELSE ~startswith(Unwrap(e[2], qmk_combo_for(e)[3]), "<")
        /\ \A i \in 1..Len(rows) :
              AllStagesFail(chosen[rows[i][1]]) => MarkerCarriesSeed(chosen[rows[i][1]], rows[i][4])

\* a resolved row carries a wrapped marker seeded by level 0, another run one
\* seeded by the occurrence's own symbol
C6_Witness ==
    /\ IsHelper /\ pc = "exit0"
    /\ \E i \in 1..Len(rows) :
          LET e == chosen[rows[i][1]] IN
          /\ AllStagesFail(e)
          /\ e[2] = 3
          /\ e[4][1] = NoSymbol
          /\ rows[i][4] = "S(RALT(<KC_BASE_DESCONOCIDA:keysym=at>))"

----------------------------------------------------------------------------
\* no key but `code` produces one of the characters
OnlyKeyFor(code, chars) ==
    \A k \in Keys, l \in Levels :
        keymap[k].code # code => CharOf(keymap[k].syms[l + 1]) \notin chars
RowsFor(c) == {rows[i] : i \in {j \in 1..Len(rows) : rows[j][1] = c}}
\* the modifier label: the combination without its trailing joiner
ModLabel(e) == droplast(qmk_combo_for(e)[1])

Row_aA == <<"a", "A", NoSymbol, NoSymbol>>

(* C7: with key 38 = [a, A, NoSymbol, NoSymbol] and no other key producing   *)
(* "a" or "A", "a" resolves to level 0 with modifier label "" (printed as a  *)
(* dash) and keycode KC_A, "A" to level 1 with label "Shift" and S(KC_A).    *)
C7_Scenario_aA ==
    (IsHelper /\ pc # "start" /\ HasKey(38) /\ RowOf(38) = Row_aA /\ OnlyKeyFor(38, {"a", "A"})) =>
        /\ pc = "exit0"
        /\ chosen["a"] = <<38, 0, "a", Row_aA>>
        /\ ModLabel(chosen["a"]) = ""
        /\ RowsFor("a") = {<<"a", DASH, "a", "KC_A", "a">>}
        /\ chosen["A"] = <<38, 1, "A", Row_aA>>
        /\ ModLabel(chosen["A"]) = "Shift"
        /\ RowsFor("A") = {<<"A", "Shift", "A", "S(KC_A)", "a">>}

\* the scenario with a second key in front of key 38
C7_Witness ==
    /\ IsHelper /\ pc = "exit0"
    /\ Len(keymap) = 2 /\ keymap[2].code = 38 /\ keymap[2].syms = Row_aA
    /\ keymap[1].syms[1] # NoSymbol
    /\ OnlyKeyFor(38, {"a", "A"})
    /\ Len(rows) >= 3

----------------------------------------------------------------------------
Row_ntilde == <<"ntilde", "Ntilde", NoSymbol, NoSymbol>>

(* C8: a key with row [ntilde, Ntilde, NoSymbol, NoSymbol], the only key to  *)
(* produce these characters, resolves n-tilde to its level 0 with the        *)
(* semicolon keycode KC_SCLN unwrapped, and N-tilde to S(KC_SCLN).           *)
C8_Scenario_ntilde ==
    \A k \in Keys :
        (IsHelper /\ pc # "start" /\ keymap[k].syms = Row_ntilde
                  /\ OnlyKeyFor(keymap[k].code, {"ñ", "Ñ"})) =>
            /\ pc = "exit0"
            /\ chosen["ñ"] = <<keymap[k].code, 0, "ntilde", Row_ntilde>>
            /\ RowsFor("ñ") = {<<"ñ", DASH, "ntilde", "KC_SCLN", "ñ">>}
            /\ chosen["Ñ"] = <<keymap[k].code, 1, "Ntilde", Row_ntilde>>
            /\ RowsFor("Ñ") = {<<"Ñ", "Shift", "Ntilde", "S(KC_SCLN)", "ñ">>}

C8_Witness ==
    /\ IsHelper /\ pc = "exit0"
    /\ \E k \in Keys : keymap[k].syms = Row_ntilde /\ OnlyKeyFor(keymap[k].code, {"ñ", "Ñ"})
    /\ Len(keymap) = 2

----------------------------------------------------------------------------
IsMissingRow(r) == r[5] = "No hallado en este layout"
RECURSIVE Select(_, _)
Select(seq, keep) ==
    IF seq = <<>> THEN <<>>
    ELSE IF Head(seq) \in keep THEN <<Head(seq)>> \o Select(Tail(seq), keep)
    ELSE Select(Tail(seq), keep)
\* the wanted characters that have an occurrence in the reverse index
FoundWanted == Range(Wanted) \cap DOMAIN positions
RowChars == [i \in 1..Len(rows) |-> rows[i][1]]
IndexedChars ==
    {CharOf(keymap[kl[1]].syms[kl[2] + 1]) :
        kl \in {x \in Keys \X Levels :
                  /\ keymap[x[1]].syms[x[2] + 1] # NoSymbol
                  /\ CharOf(keymap[x[1]].syms[x[2] + 1]) # None
                  /\ ~startswith(CharOf(keymap[x[1]].syms[x[2] + 1]), DEAD_PREFIX)}}

(* C9: a wanted character without occurrence gets exactly one placeholder    *)
(* row when keymap_programming_keys runs with --all, and no row without it   *)
(* (nor in kbmap_qmk_helper, which has no such option); the rows of the      *)
(* found characters are the same either way and come from the built index.  *)
C9_MissingRows ==
    Finished =>
        LET found == FoundWanted IN
        /\ IsProgKeys =>
              Select(rows, {r \in Range(rows) : ~IsMissingRow(r)})
                  = pk_loop(positions, FALSE, pk_WANTED_CHARS).rows
        /\ \A i \in 1..Len(rows) :
              IF rows[i][1] \in found THEN ~IsMissingRow(rows[i])
              ELSE rows[i] = <<rows[i][1], DASH, DASH, DASH, "No hallado en este layout">>
        /\ IF IsProgKeys /\ show_missing
           THEN RowChars = pk_WANTED_CHARS
           ELSE RowChars = Select(Wanted, found)
        /\ DOMAIN positions = IndexedChars

\* a run with --all that found some characters and flagged the others
C9_Witness ==
    /\ IsProgKeys /\ show_missing /\ pc = "exit0"
    /\ \E i, j \in 1..Len(rows) : IsMissingRow(rows[i]) /\ ~IsMissingRow(rows[j])

----------------------------------------------------------------------------
(* C10 *)

ShiftHeld == held \cap {"Shift_L", "Shift_R"} # {}
RaltForm(q) == startswith(q, "RALT(") /\ endswith(q, ")")
ShiftRaltForm(q) == startswith(q, "S(RALT(") /\ endswith(q, "))")
\* a letter key goes down while ISO_Level3_Shift has been pressed and no AltGr
\* alias released since
ArmedLetterPress ==
    \E event \in TkPresses :
        /\ event.keysym \in LetterKeys
        /\ armed
        /\ on_keypress_tk(event)

\* C10: after ISO_Level3_Shift went down and no AltGr alias came up, the press
\* of a letter key emits an event whose alt_r flag is set and whose suggestion
\* is S(RALT(...)) when a Shift key is held down and RALT(...) otherwise.
C10_ShiftHeldDecides ==
    [][ArmedLetterPress =>
          /\ xkb_info'.alt_r
          /\ IF ShiftHeld THEN ShiftRaltForm(var_xkb_qmk')
                          ELSE RaltForm(var_xkb_qmk')]_vars

----------------------------------------------------------------------------
(* C11 *)

TrackedModifiers ==
    {"KEY_LEFTSHIFT", "KEY_RIGHTSHIFT", "KEY_LEFTALT", "KEY_RIGHTALT",
     "KEY_LEFTCTRL", "KEY_RIGHTCTRL", "KEY_LEFTMETA", "KEY_RIGHTMETA"}
NonModifierDown(event) ==
    /\ event.type = "EV_KEY"
    /\ event.keystate = "key_down"
    /\ keyname_of(event.scancode) \notin TrackedModifiers
EvShiftHeld == ev_held \cap {"42", "54"} # {}
UnknownBase == "<KC_BASE_DESCONOCIDA>"
\* the last step put exactly one item on the queue
PutOne == Len(enqueued') = Len(enqueued) + 1 /\ queue' = Append(queue, enqueued'[Len(enqueued')])
LastPut == enqueued'[Len(enqueued')]

\* C11: once the read loop has seen KEY_RIGHTALT go down and not come up, the
\* key-down of a scancode that is no modifier enqueues an event whose alt_r
\* flag is set and whose character is empty, and the suggestion shown for it
\* is the unknown-base marker in RALT(...), or in S(RALT(...)) when a Shift
\* key is held.
C11_RightAltThenKey ==
    [][\A event \in LiveRawEvents :
          (ev_armed /\ NonModifierDown(event) /\ evdev_event(event)) =>
              /\ PutOne
              /\ LastPut.isinfo
              /\ LastPut.info.alt_r
              /\ LastPut.info.char = ""
              /\ ev_qmk(LastPut.info) =
                    IF EvShiftHeld THEN "S(RALT(" \o UnknownBase \o "))"
                                   ELSE "RALT(" \o UnknownBase \o ")"]_vars

----------------------------------------------------------------------------
(* C12 *)

\* C12: the key-down of a scancode that is none of the tracked modifier keys
\* enqueues exactly one event, which carries the flags as they stand and an
\* empty character; the key-down of a tracked modifier key enqueues nothing.
C12_OneEventPerKeyDown ==
    [][\A event \in LiveRawEvents :
          (event.type = "EV_KEY" /\ event.keystate = "key_down" /\ evdev_event(event)) =>
              IF NonModifierDown(event)
              THEN /\ PutOne
                   /\ LastPut.isinfo
                   /\ LastPut.info.char = ""
                   /\ LastPut.info.shift = ev_mods'.Shift
                   /\ LastPut.info.alt_l = ev_mods'.Alt_L
                   /\ LastPut.info.alt_r = ev_mods'.Alt_R
                   /\ LastPut.info.ctrl = ev_mods'.Ctrl
                   /\ LastPut.info.super = ev_mods'.Super
              ELSE UNCHANGED <<queue, enqueued>>]_vars

----------------------------------------------------------------------------
(* C13 *)

\* C13: in the Tk backend the press of Alt_R, ISO_Level3_Shift or Mode_switch
\* sets the one flag Alt_R, the release of any of the three clears it, and
\* neither changes another flag.
C13_AliasesShareAltR ==
    [][/\ \A event \in TkPresses :
             (event.keysym \in AltGrAliases /\ on_keypress_tk(event)) =>
                 tk_mods' = [tk_mods EXCEPT !.Alt_R = TRUE]
       /\ \A ks \in AltGrAliases :
             on_keyrelease_tk([keysym |-> ks]) =>
                 tk_mods' = [tk_mods EXCEPT !.Alt_R = FALSE]]_vars

\* Mode_switch went down while ISO_Level3_Shift was held
C13_Witness ==
    /\ xkb_info.key = "Mode_switch"
    /\ xkb_info.alt_r
    /\ tk_mods.Alt_R
    /\ held = {"Mode_switch", "ISO_Level3_Shift"}

----------------------------------------------------------------------------
(* C14 *)

\* the layout model the resolver that ran builds from the raw table
LayoutModel == IF IsHelper THEN parse_xmodmap_pke(pke) ELSE parse_pke(pke)

\* C14: when the layout model built from the raw table is empty, the resolver
\* ends with exit status 1, which is not the status 2 of "no target character
\* found", and has built no index and no row.
C14_EmptyModelIsFatal ==
    (pc # "start" /\ DISPLAY /\ LayoutModel = <<>>) =>
        /\ pc = "exit1"
        /\ pc # "exit2"
        /\ keymap = <<>>
        /\ positions = <<>>
        /\ rows = <<>>
        /\ chosen = <<>>

\* a raw table that has lines, none of them a keycode line with symbols
C14_Witness ==
    /\ pc = "exit1"
    /\ DISPLAY
    /\ pke # <<>>
    /\ LayoutModel = <<>>

----------------------------------------------------------------------------
(* C15 *)

\* the capture thread ended through its exception handler
Failed == ev_pc = "done" /\ ev_exc # ""
IsDiagnostic(item) == ~item.isinfo /\ startswith(item.text, "[evdev] Error: ")

\* C15: when the device read loop fails, the capture thread puts exactly one
\* diagnostic item, which is no LiveEvent, at the tail of the queue and ends;
\* it puts nothing more; the UI goes on draining the queue and handling Tk key
\* events, and a new capture can be started.
StillUsable ==
    /\ ui_pc = "idle" => ENABLED drain_begin
    /\ ui_pc = "drain" => ENABLED (drain_item \/ drain_end)
    /\ (ui_pc = "idle" /\ held = {}) => ENABLED UiKeyPress
    /\ (ui_pc = "idle" /\ held # {}) => ENABLED UiKeyRelease
C15_FailureIsReported ==
    [][/\ (ev_pc \in {"open", "read"} /\ ev_pc' = "except") => UNCHANGED <<queue, enqueued>>
       /\ (ev_pc = "except" /\ ev_pc' # "except") =>
              /\ ev_pc' = "done"
              /\ PutOne
              /\ IsDiagnostic(LastPut)
       /\ (ev_pc = "except" /\ ev_pc' = "except") => UNCHANGED enqueued
       /\ ev_pc = "done" => UNCHANGED enqueued
       /\ Failed => StillUsable
       /\ (Failed /\ start_evdev_capture(TRUE)) => (ev_pc' = "open" /\ ~ev_stop')]_vars

\* the read loop failed after a LiveEvent was enqueued, both were displayed, a
\* Tk key went down and a second capture is running
C15_Witness ==
    /\ ev_exc # ""
    /\ ev_pc = "read"
    /\ Len(enqueued) = 2
    /\ enqueued[1].isinfo
    /\ IsDiagnostic(enqueued[2])
    /\ displayed = enqueued
    /\ xkb_info.key = "Shift_L"

----------------------------------------------------------------------------
(* C16 *)

\* the modifier class of a Tk keysym, named as its flag in tk_mods
ClassOf(ks) ==
    IF ks \in {"Shift_L", "Shift_R"} THEN "Shift"
    ELSE IF ks \in {"Control_L", "Control_R"} THEN "Control"
    ELSE IF ks = "Alt_L" THEN "Alt_L"
    ELSE IF ks \in AltGrAliases THEN "Alt_R"
    ELSE IF ks \in {"Meta_L", "Meta_R"} THEN "Meta"
    ELSE IF ks \in {"Super_L", "Super_R"} THEN "Super"
    ELSE "none"
ModifierClasses == {"Shift", "Control", "Alt_L", "Alt_R", "Meta", "Super"}
\* the flag of a class in the snapshot an event carries
SnapshotFlag(info, class) ==
    IF class = "Shift" THEN info.shift
    ELSE IF class = "Control" THEN info.ctrl
    ELSE IF class = "Alt_L" THEN info.alt_l
    ELSE IF class = "Alt_R" THEN info.alt_r
    ELSE IF class = "Meta" THEN info.meta
    ELSE info.super

\* C16: in the Tk backend, for each of the six modifier classes, the press of
\* a symbol of the class sets the class's flag, every event emitted while the
\* flag is set carries it set, and the release of a symbol of the class
\* clears the flag.
C16_SixFlagsTracked ==
    [][/\ \A event \in TkPresses :
             on_keypress_tk(event) =>
                 /\ ClassOf(event.keysym) \in ModifierClasses =>
                        tk_mods'[ClassOf(event.keysym)]
                 /\ \A class \in ModifierClasses :
                        (tk_mods[class] \/ tk_mods'[class]) =>
                            (tk_mods'[class] /\ SnapshotFlag(xkb_info', class))
       /\ \A ks \in TkKeys :
             (ClassOf(ks) \in ModifierClasses /\ on_keyrelease_tk([keysym |-> ks])) =>
                 ~tk_mods'[ClassOf(ks)]]_vars

----------------------------------------------------------------------------
(* C17 *)

TkHandlerStep == UiKeyPress \/ UiKeyRelease
ReadLoopStep == \E event \in LiveRawEvents : evdev_event(event)
SameFlags(info, shift, alt_l, alt_r, super) ==
    /\ info.shift = shift
    /\ info.alt_l = alt_l
    /\ info.alt_r = alt_r
    /\ info.super = super

\* C17: however the UI thread and the capture thread interleave, tk_mods is
\* written only by the Tk handlers and ev_mods only by the read loop; a Tk
\* event leaves ev_mods alone, a raw event leaves tk_mods alone, and the
\* snapshot of an event is taken from the flags of its own backend only.
C17_FlagsStayApart ==
    [][/\ tk_mods' # tk_mods => (TkHandlerStep /\ ~ReadLoopStep)
       /\ ev_mods' # ev_mods => (ReadLoopStep /\ ~TkHandlerStep)
       /\ TkHandlerStep => UNCHANGED ev_mods
       /\ ReadLoopStep => UNCHANGED tk_mods
       /\ UiKeyPress =>
              /\ SameFlags(xkb_info', tk_mods'.Shift, tk_mods'.Alt_L, tk_mods'.Alt_R, tk_mods'.Super)
              /\ xkb_info'.meta = tk_mods'.Meta
              /\ ~xkb_info'.ctrl
       /\ (enqueued' # enqueued /\ ReadLoopStep) =>
              /\ LastPut.isinfo
              /\ SameFlags(LastPut.info, ev_mods'.Shift, ev_mods'.Alt_L, ev_mods'.Alt_R, ev_mods'.Super)
              /\ LastPut.info.ctrl = ev_mods'.Ctrl
              /\ ~LastPut.info.meta]_vars

\* each backend emitted an event while the Shift flags of the two disagreed
C17_Witness ==
    /\ tk_mods.Shift
    /\ ~ev_mods.Shift
    /\ xkb_info.key = "Shift_L"
    /\ xkb_info.shift
    /\ enqueued # <<>>
    /\ enqueued[Len(enqueued)].isinfo
    /\ enqueued[Len(enqueued)].info.key = "KEY_A"
    /\ ~enqueued[Len(enqueued)].info.shift
    /\ enqueued[Len(enqueued)].info.alt_r

----------------------------------------------------------------------------
(* C18 *)

\* the capture thread and the drain timer alone; the timer keeps firing and
\* the callback runs to its end
NextDrain ==
    \/ StartCapture
    \/ _drain_queue
    \/ Worker

SpecDrainFair == InitLive /\ [][NextDrain]_vars /\ WF_vars(_drain_queue)

\* what the evdev tab shows once a LiveEvent was displayed
ShowsNext(info) ==
    /\ var_ev_combo' = ev_combo(info)
    /\ var_ev_key' = info.key \o " (" \o info.comment \o ")"
    /\ var_ev_qmk' = qmk_from_char_and_mods(None, info.shift, info.alt_r)
LogLine(item) ==
    IF item.isinfo
    THEN "[evdev] " \o ev_combo(item.info) \o " | " \o item.info.key \o " | " \o
         qmk_from_char_and_mods(None, item.info.shift, item.info.alt_r) \o "\n"
    ELSE item.text \o "\n"

\* C18: every item the capture thread puts on the queue is eventually taken
\* by the drain timer and displayed, once, and in the order of the puts; what
\* is shown for a LiveEvent is the snapshot it was enqueued with, whatever
\* ev_mods holds by then; the capture thread never writes the display.
C18_DrainedInOrder ==
    /\ [](displayed \o queue = enqueued)
    /\ [][/\ displayed' # displayed =>
                /\ displayed' = Append(displayed, enqueued[Len(displayed) + 1])
                /\ txt_ev_log' = LogLine(enqueued[Len(displayed) + 1])
                /\ enqueued[Len(displayed) + 1].isinfo => ShowsNext(enqueued[Len(displayed) + 1].info)
          /\ Worker => UNCHANGED ev_ui_vars]_vars
    /\ \A n \in 1..MaxItems : (Len(enqueued) >= n) ~> (Len(displayed) >= n)

\* two events were displayed in order, the last one with AltGr in its
\* snapshot although the read loop has seen KEY_RIGHTALT come up since
C18_Witness ==
    /\ Len(displayed) = 2
    /\ displayed = enqueued
    /\ displayed[1].isinfo /\ ~displayed[1].info.alt_r
    /\ displayed[2].isinfo /\ displayed[2].info.alt_r
    /\ ~ev_mods.Alt_R
    /\ var_ev_combo = "Alt_R (AltGr)"
    /\ var_ev_qmk = "RALT(<KC_BASE_DESCONOCIDA>)"

----------------------------------------------------------------------------
(* C20 *)

\* what the live suggestion function returns for an occurrence of c
LiveSuggestion(c, e) == qmk_from_char_and_mods(c, e[2] \in {1, 3}, e[2] \in {2, 3})
AsciiLetterOrDigit(x) ==
    x \in Range(ascii_lowercase) \cup Range(ascii_uppercase) \cup Range(Digits)

\* C20: for every key row and every level whose symbol resolves to a
\* character c, the expression of qmk_combo_for for that occurrence equals
\* qmk_from_char_and_mods(c, shift = level in {1,3}, altgr = level in {2,3}).
C20_ResolverReducesToSuggest ==
    (IsHelper /\ Finished) =>
        \A c \in DOMAIN positions : \A e \in Range(positions[c]) :
            qmk_combo_for(e)[3] = LiveSuggestion(c, e)

\* C20, amended: qmk_combo_for wraps its base hypothesis of the row exactly as
\* qmk_from_char_and_mods wraps for shift = level in {1,3} and altgr = level
\* in {2,3}, and the two expressions are equal when the row's level-0 symbol
\* is an ASCII letter or digit and c is that letter, in either case, or that
\* digit.
C20_SameWrappingSameLetter ==
    (IsHelper /\ Finished) =>
        \A c \in DOMAIN positions : \A e \in Range(positions[c]) :
            /\ qmk_combo_for(e)[3] = wrap(qmk_base(e), e[2] \in {1, 3}, e[2] \in {2, 3})
            /\ (AsciiLetterOrDigit(e[4][1]) /\ lower(c) = lower(e[4][1])) =>
                   qmk_combo_for(e)[3] = LiveSuggestion(c, e)

\* key a carries A on its fourth level and both functions say S(RALT(KC_A))
C20_Witness ==
    /\ IsHelper /\ Finished
    /\ "A" \in DOMAIN positions
    /\ \E e \in Range(positions["A"]) :
          /\ e[2] = 3
          /\ e[4][1] = "a"
          /\ qmk_combo_for(e)[3] = "S(RALT(KC_A))"
          /\ LiveSuggestion("A", e) = "S(RALT(KC_A))"

----------------------------------------------------------------------------
(* C21 *)

\* sub in s
Contains(s, sub) == \E i \in 1..(Len(s) - Len(sub) + 1) : SubSeq(s, i, i + Len(sub) - 1) = sub
\* a non-empty character none of the three lookups of qmk_from_char_and_mods
\* finds a base keycode for
NoBaseKeycode(ch) ==
    /\ ch # ""
    /\ ch \notin DOMAIN kci_BASE_KEYSYM_TO_QMK
    /\ ch \notin DOMAIN EXTRA_CHAR_TO_QMK
    /\ ~(Len(ch) = 1 /\ isalpha(ch) /\ lower(ch) \in DOMAIN kci_BASE_KEYSYM_TO_QMK)

\* C21: when the event shown carries a non-empty character for which
\* qmk_from_char_and_mods finds no base keycode, the suggestion shown for it
\* contains the unknown-base marker and contains that character.
C21_MarkerCarriesChar ==
    (xkb_info.source = "XKB" /\ NoBaseKeycode(xkb_info.char)) =>
        /\ Contains(var_xkb_qmk, "KC_BASE_DESCONOCIDA")
        /\ Contains(var_xkb_qmk, xkb_info.char)

----------------------------------------------------------------------------
(* C22 *)

AltGrHeld == held \cap AltGrAliases # {}

\* C22: in each backend the Shift flag is set exactly when a Shift key is
\* down, also after one of two held Shift keys came up, and the AltGr flag of
\* the Tk backend is set exactly when one of its three aliases is down.
C22_FlagIffHeld ==
    /\ tk_mods.Shift <=> ShiftHeld
    /\ tk_mods.Alt_R <=> AltGrHeld
    /\ ev_mods.Shift <=> EvShiftHeld

----------------------------------------------------------------------------
(* C23 *)

\* the number of places of s where sub starts
Count(s, sub) ==
    Cardinality({i \in 1..(Len(s) - Len(sub) + 1) : SubSeq(s, i, i + Len(sub) - 1) = sub})
\* the suggestion with its wrappers taken off
Unwrapped(q, shift, ralt) ==
    IF shift /\ ralt THEN SubSeq(q, Len("S(RALT(") + 1, Len(q) - 2)
    ELSE IF ralt THEN SubSeq(q, Len("RALT(") + 1, Len(q) - 1)
    ELSE IF shift THEN SubSeq(q, Len("S(") + 1, Len(q) - 1)
    ELSE q
BareBase(b) == startswith(b, "KC_") \/ b = UnknownBase

\* C23: the suggestion shown for an event carries exactly the wrappers of the
\* event's shift and AltGr flags: one S( when shift is set and none otherwise,
\* one RALT( when AltGr is set and none otherwise, nested as S(RALT(base))
\* when both are set, around a bare keycode or the unknown-base marker.
C23_ExactWrappers ==
    xkb_info.source = "XKB" =>
        LET q == var_xkb_qmk
            shift == xkb_info.shift
            ralt == xkb_info.alt_r
        IN /\ Count(q, "S(") = (IF shift THEN 1 ELSE 0)
           /\ Count(q, "RALT(") = (IF ralt THEN 1 ELSE 0)
           /\ (shift /\ ralt) => ShiftRaltForm(q)
           /\ BareBase(Unwrapped(q, shift, ralt))

----------------------------------------------------------------------------
(* C24 *)

NoFlagSet(mods) ==
    ~(mods.Shift \/ mods.Ctrl \/ mods.Alt_L \/ mods.Alt_R \/ mods.Meta \/ mods.Super)

\* C24: when a capture worker has been started and has not read an event yet,
\* also when it was started after an earlier worker ended with a device error
\* while a modifier was held, every flag of the evdev backend is false.
C24_RunStartsClean == ev_pc = "open" => NoFlagSet(ev_mods)

----------------------------------------------------------------------------
(* C25 *)

\* the thread, its stop flag, the state it writes and what was logged
ev_run_vars == <<ev_pc, ev_stop, ev_exc, ev_mods, queue, enqueued, txt_ev_log>>

\* C25: a capture start requested while a worker is alive starts no worker and
\* leaves the stop flag, the running worker, the flag state and the queue as
\* they are, and a worker is started only when none was started before or the
\* previous one has terminated.
C25_OneWorkerAtATime ==
    [][/\ \A readable \in BOOLEAN :
              (is_alive /\ start_evdev_capture(readable)) => UNCHANGED ev_run_vars
       /\ (ev_pc # "open" /\ ev_pc' = "open") => ev_pc \in {"none", "done"}]_vars

\* the start button was refused with "Ya hay una captura en curso." and the
\* worker is reading, with an event of its own on the queue
C25_Witness ==
    /\ messagebox = "Captura"
    /\ ev_pc = "read"
    /\ ~ev_stop
    /\ queue # <<>>

============================================================================
